---- MODULE Spec2Model ----
(***************************************************************************)
(* resale-radar: seen-item tracking and new-item detection.                *)
(* BaseScraper.run (src/base_scraper.py), the Yahoo adapter's id and price *)
(* resolution (src/scrapers/yahoo.py) and the pass orchestration of        *)
(* run_monitoring (src/main.py), as a state machine.                       *)
(***************************************************************************)
EXTENDS Integers, Sequences, FiniteSets, TLC

\* ------------------------------------------------------------------ bounds
\* Longest list an adapter call returns in the model.
MaxItems == 2

\* ------------------------------------------------------- configuration data
\* config['yahoo']['keywords']: the ordered keyword list of the one source.
keywords == <<"k1", "k2">>
KeywordSet == {keywords[i] : i \in DOMAIN keywords}

\* Values config['yahoo']['min_price'] takes in the model.
MinPrices == {0, 1, 2}

\* Item prices ('price' of an item dict; 0 also stands for a missing price).
Prices == {0, 1, 2}

\* Item ids that occur; "" is the unresolved id.
Ids == {"a", "b"}

\* A url is its sequence of path segments.
UrlA == <<"jp", "auction", "a">>
UrlB == <<"jp", "auction", "b">>
UrlNone == <<"search", "auction">>

\* The items the parser produces in the model: an item carrying its item_id,
\* an item whose id is only in its url (each at every price), and an item
\* whose id cannot be resolved.
Items ==
    { [item_id |-> "a", url |-> UrlA, price |-> p] : p \in Prices }
    \cup { [item_id |-> "", url |-> UrlB, price |-> p] : p \in Prices }
    \cup { [item_id |-> "", url |-> UrlNone, price |-> 2] }

\* The lists search(keyword) can return.
FreshLists == UNION { [1..n -> Items] : n \in 0..MaxItems }

\* ------------------------------------------------------------------ helpers
Range(s) == { s[i] : i \in DOMAIN s }

\* The empty dict {}.
EmptyMap == [k \in {} |-> {}]

\* JSON lists without repetition over Ids: what list(set) can produce.
IdLists ==
    { s \in UNION { [1..n -> Ids] : n \in 0..Cardinality(Ids) } :
        \A i, j \in DOMAIN s : i # j => s[i] # s[j] }

\* ------------------------------------------------- adapter: id and price
\* YahooScraper._extract_item_id_from_url: re.search(r'/auction/([a-z0-9]+)')
\* finds the first "auction" segment that is followed by a non-empty id.
extract_item_id_from_url(url) ==
    LET hits == { i \in DOMAIN url :
                    url[i] = "auction" /\ i + 1 \in DOMAIN url /\ url[i + 1] # "" }
    IN  IF hits = {} THEN ""
        ELSE url[(CHOOSE i \in hits : \A j \in hits : i <= j) + 1]

\* YahooScraper.get_item_id: item.get('item_id', '') or the id from the url.
get_item_id(item) ==
    IF item.item_id # "" THEN item.item_id ELSE extract_item_id_from_url(item.url)

\* YahooScraper.get_price: item.get('price', 0).
get_price(item) == item.price

\* Python truthiness of an int.
Truthy(n) == n # 0

\* ------------------------------------------------------- detection engine
\* price_ok without the truthiness test on the price.
price_ok_plain(price, min_price) == price >= min_price

\* price_ok with > in place of >=.
price_ok_strict(price, min_price) == Truthy(price) /\ price > min_price

\* The price test of filter_new_items: `price and price >= self.min_price`.
price_ok(price, min_price) == Truthy(price) /\ price >= min_price

\* id_is_new without the `item_id and` test.
id_is_new_empty(item_id, seen_items) == item_id \notin seen_items

\* id_is_new without the membership test.
id_is_new_any(item_id, seen_items) == item_id # ""

\* The id test of filter_new_items: `item_id and item_id not in seen_items`.
id_is_new(item_id, seen_items) == item_id # "" /\ item_id \notin seen_items

\* BaseScraper.filter_new_items: the loop over items, in order.
RECURSIVE filter_new_items(_, _, _)
filter_new_items(items, seen_items, min_price) ==
    IF items = <<>> THEN <<>>
    ELSE LET item == Head(items)
             rest == filter_new_items(Tail(items), seen_items, min_price)
         IN  IF id_is_new(get_item_id(item), seen_items)
                /\ price_ok(get_price(item), min_price)
             THEN <<item>> \o rest
             ELSE rest

\* bootstrap_mark without the `if item_id` test.
bootstrap_mark_any(item_id, seen_items) == seen_items \cup {item_id}

\* The body of the first-run loop: `if item_id: seen_items.add(item_id)`.
bootstrap_mark(item_id, seen_items) ==
    IF item_id # "" THEN seen_items \cup {item_id} ELSE seen_items

\* The first-run loop of BaseScraper.run over the fresh items, in order.
RECURSIVE bootstrap_add(_, _)
bootstrap_add(items, seen_items) ==
    IF items = <<>> THEN seen_items
    ELSE bootstrap_add(Tail(items),
                       bootstrap_mark(get_item_id(Head(items)), seen_items))

\* ------------------------------------------------------------------- store
\* load_seen_items dropping the first element of every list.
load_seen_items_tail(f) ==
    IF f.status = "ok"
    THEN [k \in DOMAIN f.data |->
            { f.data[k][i] : i \in DOMAIN f.data[k] \ {1} }]
    ELSE [k \in {} |-> {}]

\* BaseScraper._load_seen_items: {} when the file is missing or does not
\* parse, else every list turned into a set.
load_seen_items(f) ==
    IF f.status = "ok"
    THEN [k \in DOMAIN f.data |-> Range(f.data[k])]
    ELSE EmptyMap

\* serializable leaving out the keywords whose set is empty.
serializable_nonempty(m) ==
    { d \in [{ k \in DOMAIN m : m[k] # {} } -> IdLists] :
        \A k \in DOMAIN d : Range(d[k]) = m[k] /\ Len(d[k]) = Cardinality(m[k]) }

\* The dicts {k: list(v)} that _save_seen_items can serialise: list(set)
\* has the set's elements in some order.
serializable(m) ==
    { d \in [DOMAIN m -> IdLists] :
        \A k \in DOMAIN m : Range(d[k]) = m[k] /\ Len(d[k]) = Cardinality(m[k]) }

\* with_keyword handing out an empty set that is not stored in the dict.
with_keyword_unstored(m, k) == m

\* BaseScraper._get_seen_items_for_keyword: creates the empty set on first use.
with_keyword(m, k) == IF k \in DOMAIN m THEN m ELSE (k :> {}) @@ m

\* add_seen on one set shared by all the keywords of the dict.
add_seen_shared(m, k, item_id) == [j \in DOMAIN m |-> m[j] \cup {item_id}]

\* add_seen that records nothing.
add_seen_none(m, k, item_id) == m

\* seen_items.add(item_id) on the keyword's set.
add_seen(m, k, item_id) == [m EXCEPT ![k] = @ \cup {item_id}]

\* ----------------------------------------------------------- orchestration
\* What config['yahoo'] can be: a dict without an 'enabled' field, a dict with
\* enabled true or false, or a value that is not a dict.
YahooConfigs == {"unset", "on", "off", "not_a_dict"}

\* create_scrapers with the scraper made unless 'enabled' is false.
create_scrapers_default_on(c) == c \in {"unset", "on"}

\* create_scrapers: a scraper is made iff config['yahoo'].get('enabled', False).
create_scrapers(c) == IF c = "unset" THEN FALSE ELSE c = "on"

\* BaseScraper.__init__: self.enabled = config.get('enabled', True), which
\* run() tests first.
scraper_enabled(c) == IF c = "unset" THEN TRUE ELSE c = "on"

\* The branch _load_seen_items takes: the file does not exist, it is read and
\* parsed, or open/json.load/set raises and the except returns {}.
load_branch(f, readable) ==
    IF f.status = "missing" THEN "missing"
    ELSE IF readable /\ f.status = "ok" THEN "ok"
    ELSE "error"

\* ------------------------------------------------------------------- state
VARIABLES
    history_file,           \* the site's *_seen_items.json: status and content
    seen_items_by_keyword,  \* the scraper's in-memory dict keyword -> id set
    min_price,              \* config['yahoo']['min_price']
    pc,                     \* where the process is
    kwi,                    \* index in keywords of the keyword being processed
    items,                  \* the list search(keyword) returned
    seen_before,            \* the keyword's seen set when its processing began
    new_items,              \* filter_new_items' result for the keyword
    pending,                \* the part of new_items the notify loop has not reached
    calls,                  \* ids handed to notify for the keyword in this pass
    delivery,               \* outcomes of the keyword's notify attempts, in order
    loaded,                 \* what the scraper loaded when the pass began
    kw_status,              \* per keyword, how its processing in the pass ended
    watch,                  \* which of the histories below is being recorded
    notified,               \* per keyword, the ids ever handed to notify
    last_notified,          \* per keyword, the ids this process handed to notify in its last pass
    ever_end,               \* per keyword, the ids in its set at the end of a pass
    rt_broken,              \* a save failed or was cut short, or a load failed
    yahoo_config,                \* config['yahoo'] as run_monitoring finds it
    load_result,            \* the branch _load_seen_items took for the scraper
    durable,                \* per keyword, the ids the last completed save wrote
    prev_end                \* per keyword, its set when this process' last pass ended

vars == << history_file, seen_items_by_keyword, min_price, pc, kwi, items,
           seen_before, new_items, pending, calls, delivery, loaded, kw_status,
           watch, notified, last_notified, ever_end, rt_broken, yahoo_config,
           load_result, durable, prev_end >>

\* The keyword of the current loop iteration.
keyword == keywords[kwi]

\* The keyword's set, {} when the dict has no entry for it.
SeenOf(m, k) == IF k \in DOMAIN m THEN m[k] ELSE {}

\* first_run testing for the keyword's entry instead of an empty set.
first_run_no_entry(m, k) == k \notin DOMAIN m

\* `if not seen_items:` on the keyword's set: no history yet, or an empty one.
first_run(m, k) == SeenOf(m, k) = {}

NoIds == [k \in KeywordSet |-> {}]

\* The state when main() is about to call run_monitoring for the first time
\* on a fresh installation: no history file yet.
Start(w) ==
    /\ history_file = [status |-> "missing", data |-> EmptyMap]
    /\ seen_items_by_keyword = EmptyMap
    /\ min_price \in MinPrices
    /\ pc = "start"
    /\ kwi = 0
    /\ items = <<>>
    /\ seen_before = {}
    /\ new_items = <<>>
    /\ pending = <<>>
    /\ calls = <<>>
    /\ delivery = <<>>
    /\ loaded = EmptyMap
    /\ kw_status = [k \in KeywordSet |-> "none"]
    /\ watch = w
    /\ notified = NoIds
    /\ last_notified = NoIds
    /\ ever_end = NoIds
    /\ rt_broken = FALSE
    /\ yahoo_config \in YahooConfigs
    /\ load_result = "none"
    /\ durable = NoIds
    /\ prev_end = NoIds

Init == Start("none")

\* The per-keyword scratch values are dropped.
ClearKeyword ==
    /\ items' = <<>>
    /\ seen_before' = {}
    /\ new_items' = <<>>
    /\ pending' = <<>>
    /\ calls' = <<>>
    /\ delivery' = <<>>

\* History of the notify calls: every id ever handed to notify when
\* watch = "notified"; the ids of the keyword's latest finished notify loop
\* when watch = "last".
record_notify(item_id, loop_ends) ==
    /\ notified' =
          IF watch = "notified"
          THEN [notified EXCEPT ![keyword] = @ \cup {item_id}]
          ELSE notified
    /\ last_notified' =
          IF watch = "last" /\ loop_ends
          THEN [last_notified EXCEPT ![keyword] = Range(calls) \cup {item_id}]
          ELSE last_notified

\* A keyword's processing made no notify call.
record_no_notify ==
    /\ last_notified' =
          IF watch = "last" THEN [last_notified EXCEPT ![keyword] = {}]
          ELSE last_notified
    /\ UNCHANGED notified

\* History of the seen sets at the end of a keyword's processing: recorded
\* when watch = "seen" for as long as no save has failed or been cut short and
\* no load has failed, and recorded whatever happens when watch = "boot".
record_end(broken) ==
    IF watch = "boot"
    THEN /\ ever_end' = [ever_end EXCEPT
                           ![keyword] = @ \cup SeenOf(seen_items_by_keyword, keyword)]
         /\ UNCHANGED rt_broken
    ELSE IF watch = "seen"
    THEN /\ rt_broken' = (rt_broken \/ broken)
         /\ ever_end' =
               IF rt_broken'
               THEN NoIds
               ELSE [ever_end EXCEPT
                       ![keyword] = @ \cup SeenOf(seen_items_by_keyword, keyword)]
    ELSE UNCHANGED << ever_end, rt_broken >>

\* The for loop over self.keywords moves on (`continue`, or the end of the
\* loop body after time.sleep); after the last keyword run() returns.
next_keyword ==
    IF kwi < Len(keywords)
    THEN pc' = "search" /\ kwi' = kwi + 1
    ELSE pc' = "done" /\ kwi' = 0

\* The keyword's iteration reached the end of the loop body.
keyword_done(save_failed) ==
    /\ kw_status' = [kw_status EXCEPT ![keyword] = "done"]
    /\ record_end(save_failed)
    /\ next_keyword

\* run_monitoring: create_scrapers constructs the scraper, whose __init__
\* loads the history file (the file, when it exists, can be read or not);
\* scraper.run() then enters the keyword loop.
run_monitoring ==
    /\ pc \in {"start", "idle"}
    /\ yahoo_config # "not_a_dict"
    /\ create_scrapers(yahoo_config)
    /\ scraper_enabled(yahoo_config)
    /\ \E readable \in (IF history_file.status = "ok" THEN BOOLEAN ELSE {TRUE}) :
          /\ load_result' = load_branch(history_file, readable)
          /\ seen_items_by_keyword' =
                IF load_result' = "ok" THEN load_seen_items(history_file)
                ELSE EmptyMap
          /\ loaded' = seen_items_by_keyword'
          /\ IF watch = "seen"
             THEN /\ rt_broken' = (rt_broken \/ ~readable)
                  /\ ever_end' = IF rt_broken' THEN NoIds ELSE ever_end
             ELSE UNCHANGED << ever_end, rt_broken >>
    /\ kw_status' = [k \in KeywordSet |-> "pending"]
    /\ pc' = "search"
    /\ kwi' = 1
    /\ ClearKeyword
    /\ UNCHANGED << history_file, min_price, watch, yahoo_config, durable,
                    prev_end, notified, last_notified >>

\* run_monitoring when create_scrapers makes no scraper: the warning is logged
\* and run_monitoring returns without a pass.
run_monitoring_skips ==
    /\ pc \in {"start", "idle"}
    /\ yahoo_config # "not_a_dict"
    /\ ~create_scrapers(yahoo_config)
    /\ pc' = "skipped"
    /\ UNCHANGED << history_file, seen_items_by_keyword, min_price, kwi, items,
                    seen_before, new_items, pending, calls, delivery, loaded,
                    kw_status, watch, yahoo_config, load_result, durable,
                    prev_end, notified, last_notified, ever_end, rt_broken >>

\* run_monitoring when config['yahoo'] is not a dict: .get raises in
\* create_scrapers, outside every try of run_monitoring. The first call in
\* main() is outside main's try, so the process dies; a scheduled call is
\* inside it, so `except Exception` logs and main() returns.
run_monitoring_raises ==
    /\ pc \in {"start", "idle"}
    /\ yahoo_config = "not_a_dict"
    /\ pc' = IF pc = "start" THEN "down" ELSE "exited"
    /\ prev_end' = NoIds
    /\ last_notified' = NoIds
    /\ UNCHANGED << history_file, seen_items_by_keyword, min_price, kwi, items,
                    seen_before, new_items, pending, calls, delivery, loaded,
                    kw_status, watch, yahoo_config, load_result, durable,
                    notified, ever_end, rt_broken >>

\* config.json is edited while the process waits for the next tick.
edit_config ==
    /\ pc = "idle"
    /\ \E c \in YahooConfigs \ {yahoo_config} : yahoo_config' = c
    /\ UNCHANGED << history_file, seen_items_by_keyword, min_price, pc, kwi,
                    items, seen_before, new_items, pending, calls, delivery,
                    loaded, kw_status, watch, load_result, durable, prev_end,
                    notified, last_notified, ever_end, rt_broken >>

\* search_raises with the exception ending the keyword loop.
search_raises_aborts ==
    /\ pc = "search"
    /\ kw_status' = [kw_status EXCEPT ![keyword] = "raised"]
    /\ pc' = "done"
    /\ kwi' = 0
    /\ ClearKeyword
    /\ UNCHANGED << history_file, seen_items_by_keyword, min_price, loaded,
                    watch, yahoo_config, load_result, durable, prev_end, notified, last_notified, ever_end, rt_broken >>

\* search(keyword) raises: the except of the loop body logs and continues.
search_raises ==
    /\ pc = "search"
    /\ kw_status' = [kw_status EXCEPT ![keyword] = "raised"]
    /\ next_keyword
    /\ ClearKeyword
    /\ UNCHANGED << history_file, seen_items_by_keyword, min_price, loaded,
                    watch, yahoo_config, load_result, durable, prev_end, notified, last_notified, ever_end, rt_broken >>

\* search(keyword) returns fresh; the keyword's set is empty: the first-run
\* branch records every resolvable id and goes on to save.
bootstrap ==
    /\ pc = "search"
    /\ first_run(seen_items_by_keyword, keyword)
    /\ \E fresh \in FreshLists :
          /\ items' = fresh
          /\ seen_items_by_keyword' =
                [with_keyword(seen_items_by_keyword, keyword) EXCEPT
                    ![keyword] = bootstrap_add(fresh, @)]
    /\ seen_before' = SeenOf(seen_items_by_keyword, keyword)
    /\ new_items' = <<>>
    /\ pending' = <<>>
    /\ calls' = <<>>
    /\ delivery' = <<>>
    /\ record_no_notify
    /\ pc' = "save"
    /\ UNCHANGED << history_file, min_price, kwi, loaded, kw_status, watch, yahoo_config, load_result, durable, prev_end,
                    ever_end, rt_broken >>

\* search(keyword) returns fresh; the keyword has history: filter_new_items
\* computes the new items.
incremental ==
    /\ pc = "search"
    /\ ~first_run(seen_items_by_keyword, keyword)
    /\ \E fresh \in FreshLists :
          /\ items' = fresh
          /\ new_items' = filter_new_items(fresh, SeenOf(seen_items_by_keyword, keyword),
                                           min_price)
          /\ pending' = new_items'
    /\ seen_before' = SeenOf(seen_items_by_keyword, keyword)
    /\ calls' = <<>>
    /\ delivery' = <<>>
    /\ pc' = "notify"
    /\ UNCHANGED << history_file, seen_items_by_keyword, min_price, kwi, loaded,
                    kw_status, watch, yahoo_config, load_result, durable, prev_end, notified, last_notified, ever_end, rt_broken >>

\* no_new_items with the save outside the `if new_items:` test.
no_new_items_saves ==
    /\ pc = "notify"
    /\ new_items = <<>>
    /\ record_no_notify
    /\ pc' = "save"
    /\ UNCHANGED << history_file, seen_items_by_keyword, min_price, kwi, items,
                    seen_before, new_items, pending, calls, delivery, loaded,
                    kw_status, watch, yahoo_config, load_result, durable,
                    prev_end, ever_end, rt_broken >>

\* `if new_items:` is false: nothing is notified and nothing is saved.
no_new_items ==
    /\ pc = "notify"
    /\ new_items = <<>>
    /\ record_no_notify
    /\ keyword_done(FALSE)
    /\ ClearKeyword
    /\ UNCHANGED << history_file, seen_items_by_keyword, min_price, loaded, watch, yahoo_config, load_result, durable, prev_end >>

\* notify with a failed delivery raising out of the notify loop: the except
\* of the keyword's loop body logs and continues with the next keyword.
notify_raises(outcome) ==
    /\ pc = "notify"
    /\ pending # <<>>
    /\ LET item == Head(pending)
           item_id == get_item_id(item)
       IN  IF outcome = "failed"
           THEN /\ record_notify(item_id, TRUE)
                /\ kw_status' = [kw_status EXCEPT ![keyword] = "raised"]
                /\ next_keyword
                /\ ClearKeyword
                /\ UNCHANGED seen_items_by_keyword
           ELSE /\ delivery' = Append(delivery, outcome)
                /\ calls' = Append(calls, item_id)
                /\ record_notify(item_id, Tail(pending) = <<>>)
                /\ seen_items_by_keyword' =
                      IF item_id # ""
                      THEN add_seen(seen_items_by_keyword, keyword, item_id)
                      ELSE seen_items_by_keyword
                /\ pending' = Tail(pending)
                /\ pc' = IF Tail(pending) = <<>> THEN "save" ELSE "notify"
                /\ UNCHANGED << kwi, items, seen_before, new_items, kw_status >>
    /\ UNCHANGED << history_file, min_price, loaded, watch, yahoo_config,
                    load_result, durable, prev_end, ever_end, rt_broken >>

\* One iteration of `for item in new_items`: notify(item), whose delivery
\* succeeds or fails without raising, then the id is recorded as seen.
notify(outcome) ==
    /\ pc = "notify"
    /\ pending # <<>>
    /\ LET item == Head(pending)
           item_id == get_item_id(item)
       IN  /\ delivery' = Append(delivery, outcome)
           /\ calls' = Append(calls, item_id)
           /\ record_notify(item_id, Tail(pending) = <<>>)
           /\ seen_items_by_keyword' =
                 IF item_id # ""
                 THEN add_seen(seen_items_by_keyword, keyword, item_id)
                 ELSE seen_items_by_keyword
           /\ pending' = Tail(pending)
           /\ pc' = IF Tail(pending) = <<>> THEN "save" ELSE "notify"
    /\ UNCHANGED << history_file, min_price, kwi, items, seen_before, new_items,
                    loaded, kw_status, watch, yahoo_config, load_result, durable, prev_end, ever_end, rt_broken >>

\* _save_seen_items: open(history_file, "w") truncates the file.
save_open ==
    /\ pc = "save"
    /\ history_file' = [status |-> "partial", data |-> EmptyMap]
    /\ pc' = "saving"
    /\ kw_status' = [kw_status EXCEPT ![keyword] = "saving"]
    /\ ClearKeyword
    /\ UNCHANGED << seen_items_by_keyword, min_price, kwi, loaded,
                    watch, yahoo_config, load_result, durable, prev_end, notified, last_notified, ever_end, rt_broken >>

\* _save_seen_items: open raises; the except logs, the file is as it was.
save_open_fails ==
    /\ pc = "save"
    /\ keyword_done(TRUE)
    /\ ClearKeyword
    /\ UNCHANGED << history_file, seen_items_by_keyword, min_price, loaded,
                    watch, yahoo_config, load_result, durable, prev_end, notified, last_notified >>

\* _save_seen_items: json.dump writes the whole dict and the file is closed.
save_dump ==
    /\ pc = "saving"
    /\ \E d \in serializable(seen_items_by_keyword) :
          history_file' = [status |-> "ok", data |-> d]
    /\ durable' =
          IF watch = "durable"
          THEN [k \in KeywordSet |-> SeenOf(seen_items_by_keyword, k)]
          ELSE durable
    /\ keyword_done(FALSE)
    /\ ClearKeyword
    /\ UNCHANGED << seen_items_by_keyword, min_price, loaded, watch,
                    yahoo_config, load_result, prev_end, notified,
                    last_notified >>

\* _save_seen_items: json.dump raises part-way; the except logs.
save_dump_fails ==
    /\ pc = "saving"
    /\ keyword_done(TRUE)
    /\ ClearKeyword
    /\ UNCHANGED << history_file, seen_items_by_keyword, min_price, loaded,
                    watch, yahoo_config, load_result, durable, prev_end, notified, last_notified >>

\* The scraper object goes away with the process or with run_monitoring's
\* local list of scrapers.
DropScraper ==
    /\ kwi' = 0
    /\ load_result' = "none"
    /\ seen_items_by_keyword' = EmptyMap
    /\ loaded' = EmptyMap
    /\ kw_status' = [k \in KeywordSet |-> "none"]
    /\ ClearKeyword

\* scraper.run() returned: run_monitoring logs completion and returns to the
\* scheduler loop of main().
pass_completed ==
    /\ pc \in {"done", "skipped"}
    /\ pc' = "idle"
    /\ prev_end' =
          IF watch = "prev" /\ pc = "done"
          THEN [k \in KeywordSet |-> SeenOf(seen_items_by_keyword, k)]
          ELSE prev_end
    /\ DropScraper
    /\ UNCHANGED << history_file, min_price, watch, yahoo_config, durable,
                    notified, last_notified, ever_end, rt_broken >>

\* The process is terminated (Ctrl+C, kill, power loss): memory is gone.
terminate ==
    /\ pc \notin {"down", "exited"}
    /\ pc' = "down"
    /\ DropScraper
    /\ IF watch = "seen"
       THEN /\ rt_broken' = (rt_broken \/ pc = "saving")
            /\ ever_end' = IF rt_broken' THEN NoIds ELSE ever_end
       ELSE UNCHANGED << ever_end, rt_broken >>
    /\ last_notified' = NoIds
    /\ prev_end' = NoIds
    /\ UNCHANGED << history_file, min_price, watch, yahoo_config, durable,
                    notified >>

\* The process is started again: main() is about to call run_monitoring.
restart ==
    /\ pc \in {"down", "exited"}
    /\ pc' = "start"
    /\ UNCHANGED << history_file, seen_items_by_keyword, min_price, kwi, items,
                    seen_before, new_items, pending, calls, delivery, loaded,
                    kw_status, watch, yahoo_config, load_result, durable, prev_end, notified, last_notified, ever_end, rt_broken >>

Next ==
    \/ run_monitoring
    \/ run_monitoring_skips
    \/ run_monitoring_raises
    \/ edit_config
    \/ search_raises
    \/ bootstrap
    \/ incremental
    \/ no_new_items
    \/ \E outcome \in {"ok", "failed"} : notify(outcome)
    \/ save_open
    \/ save_open_fails
    \/ save_dump
    \/ save_dump_fails
    \/ pass_completed
    \/ terminate
    \/ restart

\* The program, with no history recorded.
Spec == Init /\ [][Next]_vars

\* The program, with every id ever handed to notify recorded.
InitNotified == Start("notified")
SpecNotified == InitNotified /\ [][Next]_vars

\* The program, with the ids of each keyword's latest notify loop recorded.
InitLast == Start("last")
SpecLast == InitLast /\ [][Next]_vars

\* The program, with the history of its end-of-pass seen sets recorded.
InitSeen == Start("seen")
SpecSeen == InitSeen /\ [][Next]_vars

\* The program, with the content of the last completed save recorded.
InitDurable == Start("durable")
SpecDurable == InitDurable /\ [][Next]_vars

\* The program, with the seen sets at the end of the process' previous pass
\* recorded.
InitPrev == Start("prev")
SpecPrev == InitPrev /\ [][Next]_vars

\* The program, with every keyword's end-of-pass seen sets recorded whatever
\* happened to the saves.
InitBoot == Start("boot")
SpecBoot == InitBoot /\ [][Next]_vars

\* ------------------------------------------------------------ properties
\* The seen set of the keyword being processed.
current_seen == SeenOf(seen_items_by_keyword, keyword)

\* The ids of a list of items, in order.
IdsOf(s) == [j \in DOMAIN s |-> get_item_id(s[j])]

\* The step is one notify call; NotifiedId is the id handed over.
NotifyStep == pc = "notify" /\ Len(calls') = Len(calls) + 1
NotifiedId == calls'[Len(calls')]

\* The keyword is being processed in incremental mode / its first-run branch
\* has just run.
Incremental == seen_before # {}
Bootstrapped == pc = "save" /\ seen_before = {}

\* The keyword's notify loop is over (or there was nothing to notify).
LoopOver == Incremental /\ pending = <<>>

\* An item's id resolves and is not in the set the keyword started with.
Unseen(item) ==
    get_item_id(item) # "" /\ get_item_id(item) \notin seen_before

\* C1: for every keyword and id, notify is called at most once for the id
\* under the keyword, over all passes and whatever lists the adapter returns:
\* no notify call is for an id already handed to notify under that keyword.
C1_NotifiedAtMostOnce ==
    [][NotifyStep => NotifiedId \notin notified[keyword]]_vars

\* C2: an id that was in a keyword's seen set at the end of a pass is not
\* handed to notify in any later pass for that keyword, as long as no save
\* has failed or been cut short (the store round-trips).
C2_DedupMonotone ==
    ~rt_broken => \A i \in Range(calls) : i \notin ever_end[keyword]

C2_Witness ==
    /\ watch = "seen"
    /\ ~rt_broken
    /\ pc = "save"
    /\ calls # <<>>
    /\ \E j \in DOMAIN items : get_item_id(items[j]) \in ever_end[keyword]

\* C3: a keyword whose seen set is empty when its processing starts gets no
\* notify call, and afterwards its seen set is exactly the non-empty ids of
\* the fresh items.
C3_Bootstrap ==
    Bootstrapped =>
        /\ calls = <<>>
        /\ new_items = <<>>
        /\ current_seen = { get_item_id(items[j]) : j \in DOMAIN items } \ {""}

C3_Witness ==
    /\ Bootstrapped
    /\ \E j, l \in DOMAIN items :
          get_item_id(items[j]) = "" /\ get_item_id(items[l]) # ""

\* C4: in incremental mode the id of every item handed to notify is in the
\* keyword's seen set after the attempt, whether delivery succeeded or not,
\* and the keyword's next pass (of the same process) makes no notify attempt
\* for an id its last notify loop handed over.
C4_DetectedOnce ==
    [][NotifyStep =>
          /\ NotifiedId \in SeenOf(seen_items_by_keyword', keyword)
          /\ NotifiedId \notin last_notified[keyword]]_vars

\* C5 as stated: in incremental mode the notify candidates are exactly the
\* items whose id resolves, is not in the seen set, and whose price is at
\* least min_price (so a price of 0 qualifies when min_price is 0).
C5_CandidateIffPriceAtLeastMin ==
    Incremental =>
        new_items = SelectSeq(items, LAMBDA it : Unseen(it) /\ get_price(it) >= min_price)

\* C5 amended: in incremental mode the notify candidates are exactly the
\* items whose id resolves, is not in the seen set, and whose price is
\* non-zero and at least min_price; an item of price 0 is never a candidate.
C5_CandidateIffNonZeroPriceAtLeastMin ==
    Incremental =>
        /\ new_items =
              SelectSeq(items, LAMBDA it :
                  Unseen(it) /\ get_price(it) # 0 /\ get_price(it) >= min_price)
        /\ \A j \in DOMAIN new_items : get_price(new_items[j]) # 0

C5_Witness ==
    /\ Incremental
    /\ min_price = 0
    /\ new_items # <<>>
    /\ \E j \in DOMAIN items : Unseen(items[j]) /\ get_price(items[j]) = 0

\* C6: for min_price > 0, an unseen item with a resolvable id is in the
\* notify list when its price equals min_price and is not in it when its
\* price equals min_price - 1.
C6_PriceBoundary ==
    (Incremental /\ min_price > 0) =>
        \A j \in DOMAIN items :
            Unseen(items[j]) =>
                /\ get_price(items[j]) = min_price => items[j] \in Range(new_items)
                /\ get_price(items[j]) = min_price - 1 => items[j] \notin Range(new_items)

C6_Witness ==
    /\ Incremental
    /\ min_price = 2
    /\ \E j, l \in DOMAIN items :
          /\ Unseen(items[j]) /\ get_price(items[j]) = min_price
          /\ Unseen(items[l]) /\ get_price(items[l]) = min_price - 1

\* C7: no item whose id is in the seen set given to the filter is in the
\* list the filter returns, whatever its price and min_price.
C7_SeenExcluded ==
    \A j \in DOMAIN new_items : get_item_id(new_items[j]) \notin seen_before

C7_Witness ==
    /\ Incremental
    /\ new_items # <<>>
    /\ \E j \in DOMAIN items :
          /\ get_item_id(items[j]) \in seen_before
          /\ get_price(items[j]) >= min_price
          /\ get_price(items[j]) > 0

ExpectedCalls(seen0, fresh) ==
    IF seen0 = {} THEN <<>>
    ELSE IdsOf(SelectSeq(fresh, LAMBDA it :
             /\ get_item_id(it) # ""
             /\ get_item_id(it) \notin seen0
             /\ get_price(it) # 0
             /\ get_price(it) >= min_price))

ExpectedSeen(seen0, fresh) ==
    IF seen0 = {} THEN { get_item_id(fresh[j]) : j \in DOMAIN fresh } \ {""}
    ELSE seen0 \cup Range(ExpectedCalls(seen0, fresh))

\* C9: when the adapter call of a keyword raises, every other keyword of the
\* list is still processed in the pass, with the notify calls and the seen
\* set it gets when no keyword fails.
C9_FaultIsolation ==
    /\ pc = "done" => \A k \in KeywordSet : kw_status[k] \in {"done", "raised"}
    /\ (Bootstrapped \/ LoopOver) =>
          /\ calls = ExpectedCalls(SeenOf(loaded, keyword), items)
          /\ current_seen = ExpectedSeen(SeenOf(loaded, keyword), items)

C9_Witness ==
    /\ LoopOver
    /\ calls # <<>>
    /\ kwi = 2
    /\ kw_status[keywords[1]] = "raised"

\* C10: when the process dies during a save, the history file holds the
\* complete previous mapping or the complete new one, never a partial one.
C10_SaveAtomic ==
    pc = "down" => history_file.status # "partial"


\* What a process started now would load from the history file.
reloaded == load_seen_items(history_file)

\* C11: once the process has been terminated, every keyword still has, in
\* what a restarted process loads, all the ids that the last completed save
\* wrote for it; only additions that no save had completed can be missing.
C11_SavedSurvivesTermination ==
    pc = "down" =>
        \A k \in KeywordSet : durable[k] \subseteq SeenOf(reloaded, k)


\* C12: whatever the in-memory mapping is, a save that completes leaves a
\* file from which load yields the same mapping: the same keywords and, for
\* each keyword, the same set of ids, in whatever order the file lists them.
C12_RoundTrip ==
    [][(pc = "saving" /\ history_file'.status = "ok") =>
          load_seen_items(history_file') = seen_items_by_keyword]_vars

\* A completed save of a mapping with both keywords, one of them with two
\* ids that the file lists in the order b, a.
C12_Witness ==
    /\ pc \in {"search", "done"}
    /\ history_file.status = "ok"
    /\ DOMAIN seen_items_by_keyword = KeywordSet
    /\ reloaded = seen_items_by_keyword
    /\ \E k \in KeywordSet : history_file.data[k] = <<"b", "a">>


\* A pass is under way (the scraper exists and run() is in its keyword loop).
InPass == pc \in {"search", "notify", "save", "saving", "done"}

\* C13: a pass whose load found the history file missing, or could not read
\* or parse it, runs on the empty mapping (the load did not raise: the pass
\* is under way); before anything is saved, a missing or malformed file is
\* known to have been loaded that way; and a keyword that the loaded mapping
\* does not have is processed by the first-run branch.
C13_LoadNeverFails ==
    /\ (InPass /\ load_result \in {"missing", "error"}) => loaded = EmptyMap
    /\ (pc = "search" /\ kwi = 1) =>
          /\ history_file.status = "missing" => load_result = "missing"
          /\ history_file.status = "partial" => load_result = "error"
    /\ (pc \in {"notify", "save"} /\ keyword \notin DOMAIN loaded) =>
          /\ Bootstrapped
          /\ calls = <<>>
          /\ current_seen = { get_item_id(items[j]) : j \in DOMAIN items } \ {""}

\* A keyword has bootstrapped, with ids, in a pass whose load could not read
\* or parse the file.
C13_Witness ==
    /\ Bootstrapped
    /\ load_result = "error"
    /\ current_seen # {}


\* C14: for every keyword, the mapping a pass works from holds every id the
\* keyword's set held when the previous pass of the same process ended,
\* whether or not the saves of that pass succeeded.
C14_MemoryKeptAcrossPasses ==
    InPass => \A k \in KeywordSet : prev_end[k] \subseteq SeenOf(loaded, k)


\* C15: a keyword whose seen set was non-empty at the end of some pass is not
\* processed by the first-run branch in any later pass, of the same process
\* or after a restart (nothing in the model deletes the history file).
C15_NoSecondBootstrap ==
    Bootstrapped => ever_end[keyword] = {}


\* The step is a call of _save_seen_items: its open succeeds or raises.
SaveCall == pc = "save" /\ pc' \in {"saving", "search", "done"}

\* C16 as stated: save is called for a keyword at most once in a pass (the
\* keyword's processing has not reached a save or its end before), and only
\* when the keyword's set differs from the set it had when its processing
\* began.
C16_SaveOnlyIfChanged ==
    [][SaveCall =>
          /\ kw_status[keyword] = "pending"
          /\ current_seen # seen_before]_vars

\* C16 amended: save is called for a keyword at most once in a pass, and only
\* when the keyword went through the first-run branch (whether or not it
\* added an id) or its set grew by newly notified ids; a keyword with
\* history and no new item leaves the history file as it is.
C16_SaveOnlyAfterBootstrapOrNewItems ==
    [][/\ SaveCall =>
             /\ kw_status[keyword] = "pending"
             /\ (seen_before = {} \/ current_seen # seen_before)
       /\ (pc = "notify" /\ new_items = <<>> /\ pc' # "down") =>
             /\ pc' \in {"search", "done"}
             /\ history_file' = history_file]_vars

\* A first-run branch that found no id is about to save, as the second
\* keyword of a pass whose first keyword was saved.
C16_Witness ==
    /\ Bootstrapped
    /\ current_seen = {}
    /\ kwi = 2
    /\ kw_status[keywords[1]] = "done"


\* C17: while config['yahoo'] has no 'enabled' field, no step is or starts a
\* pass of the scraper: no list is fetched, notify is not called and the
\* history file is not written.
C17_NoEnabledFieldMeansDisabled ==
    [][yahoo_config = "unset" =>
          /\ ~InPass'
          /\ items' = <<>>
          /\ calls' = <<>>
          /\ history_file' = history_file]_vars

\* run_monitoring has returned without a pass for a configuration without
\* the field, on an installation that has history from earlier passes.
C17_Witness ==
    /\ yahoo_config = "unset"
    /\ pc = "skipped"
    /\ history_file.status = "ok"


\* The items of the fetched list whose id resolves.
Resolved == SelectSeq(items, LAMBDA it : get_item_id(it) # "")

\* C18: the empty id is in no seen set, in memory or in the history file, and
\* is never handed to notify; and a keyword whose list holds items without an
\* id is processed, in either branch, with the notify calls and the seen set
\* it gets for the list without those items.
C18_EmptyIdDropped ==
    /\ \A k \in DOMAIN seen_items_by_keyword : "" \notin seen_items_by_keyword[k]
    /\ \A k \in DOMAIN reloaded : "" \notin reloaded[k]
    /\ "" \notin Range(calls)
    /\ (Bootstrapped \/ LoopOver) =>
          /\ calls = ExpectedCalls(seen_before, Resolved)
          /\ current_seen = ExpectedSeen(seen_before, Resolved)

\* An incremental keyword whose list begins with an item without an id has
\* gone on to notify the item after it.
C18_Witness ==
    /\ LoopOver
    /\ Len(items) = 2
    /\ get_item_id(items[1]) = ""
    /\ calls = <<get_item_id(items[2])>>


\* C19: every step taken inside the notify loop, whatever the outcome of the
\* delivery, hands the next candidate to notify, marks its id as seen and
\* stays with the keyword until the candidates are used up; a loop in which
\* a delivery failed ends with every candidate attempted and marked and with
\* the save about to be called; the save is then called; and run() returns
\* only when every keyword has been processed.
C19_NotifyFailureIsolated ==
    [][/\ (pc = "notify" /\ pending # <<>> /\ pc' # "down") =>
             /\ calls' = Append(calls, get_item_id(Head(pending)))
             /\ Len(delivery') = Len(delivery) + 1
             /\ get_item_id(Head(pending)) \in SeenOf(seen_items_by_keyword', keyword)
             /\ pending' = Tail(pending)
             /\ kwi' = kwi
             /\ pc' = IF pending' = <<>> THEN "save" ELSE "notify"
       /\ (LoopOver /\ "failed" \in Range(delivery)) =>
             /\ pc = "save"
             /\ calls = IdsOf(new_items)
             /\ Range(calls) \subseteq current_seen
       /\ (pc = "save" /\ pc' # "down") =>
             (pc' = "saving" \/ kw_status'[keyword] = "done")
       /\ pc' = "done" =>
             \A k \in KeywordSet : kw_status'[k] \in {"done", "raised"}]_vars

\* The first keyword's loop is over: the first delivery failed, a second
\* candidate was attempted after it, and the save is about to be called.
C19_Witness ==
    /\ pc = "save"
    /\ kwi = 1
    /\ Len(delivery) = 2
    /\ delivery[1] = "failed"
    /\ Len(calls) = 2


\* C20: an error raised by a scheduled pass and caught by the outermost
\* handler of main() leaves the process in its scheduling loop, waiting for
\* the next tick: main() never returns through that handler.
C20_SchedulerLoopSurvives ==
    pc # "exited"


\* C21: a step of a keyword's processing leaves every other keyword's entry
\* and set as they were; the set a keyword is processed against is its own
\* set as loaded for the pass; and every item of its list whose id is not in
\* that set and whose price qualifies is handed to notify, whatever the
\* other keywords' sets hold.
C21_KeywordsIndependent ==
    [][/\ (pc \in {"search", "notify", "save", "saving"} /\ pc' # "down") =>
             \A k \in KeywordSet \ {keyword} :
                /\ k \in DOMAIN seen_items_by_keyword' <=> k \in DOMAIN seen_items_by_keyword
                /\ SeenOf(seen_items_by_keyword', k) = SeenOf(seen_items_by_keyword, k)
       /\ pc \in {"notify", "save"} => seen_before = SeenOf(loaded, keyword)
       /\ LoopOver =>
             \A j \in DOMAIN items :
                (Unseen(items[j]) /\ price_ok(get_price(items[j]), min_price))
                    => get_item_id(items[j]) \in Range(calls)]_vars

\* The second keyword has notified an id that the first keyword's set holds.
C21_Witness ==
    /\ LoopOver
    /\ kwi = 2
    /\ \E i \in Range(calls) :
          i \in SeenOf(seen_items_by_keyword, keywords[1])


\* C22: a first-run branch whose list holds no item with a resolvable id
\* leaves the keyword's set empty; a keyword whose loaded set is empty, be it
\* absent or recorded as empty by such a pass, is processed by the first-run
\* branch, which records the resolvable ids and calls notify for none; and
\* every notify call is for a keyword whose loaded set holds an id recorded
\* by an earlier pass.
C22_EmptyBootstrapRepeats ==
    /\ (Bootstrapped /\ \A j \in DOMAIN items : get_item_id(items[j]) = "") =>
          current_seen = {}
    /\ (pc \in {"notify", "save"} /\ SeenOf(loaded, keyword) = {}) =>
          /\ Bootstrapped
          /\ calls = <<>>
          /\ new_items = <<>>
          /\ current_seen = { get_item_id(items[j]) : j \in DOMAIN items } \ {""}
    /\ calls # <<>> => SeenOf(loaded, keyword) # {}

\* The keyword was saved with an empty set by an earlier first-run branch,
\* and the first-run branch has now run again and recorded an id.
C22_Witness ==
    /\ Bootstrapped
    /\ keyword \in DOMAIN loaded
    /\ loaded[keyword] = {}
    /\ current_seen # {}

====
